---- MODULE Spec2Model ----
(***************************************************************************)
(* Data-synchronisation layer of the event catalogue: the public-browse    *)
(* page (src/src/pages/Home.jsx) and the owner-management page             *)
(* (src/src/pages/EventManagement.jsx) over one remote document store.     *)
(*                                                                         *)
(* One page is mounted per behaviour (variable view).  Every remote call   *)
(* is split at its await: the handler's synchronous part appends a record  *)
(* to inflight, a store step executes it against the remote documents, and *)
(* a resume step runs the handler's continuation.                          *)
(*                                                                         *)
(* Representation: strings the code inspects (names, search terms) are     *)
(* sequences of one-character strings; a JavaScript object is a record and *)
(* a missing property is a field missing from the record's DOMAIN; the     *)
(* null selection is the record Null.  The notices (signals error and      *)
(* success of EventManagement, console.error) are written and never read   *)
(* back by a handler; they are not part of the state.                      *)
(***************************************************************************)
EXTENDS Integers, Sequences, FiniteSets, TLC

VARIABLES
    view,              \* which page is mounted: "home" or "mgmt"
    store,             \* remote collection "events": document id -> fields
    nextId,            \* next document id the store assigns
    now,               \* the client's clock, read by new Date(); ticks at each write command
    inflight,          \* remote calls awaited by a handler, in issue order
    events,            \* signal events of the mounted page
    loading,           \* signal loading of the mounted page
    favorites,         \* Home: signal favorites (ids favourited by the user)
    selectedCategory,  \* Home: signal selectedCategory
    filterCategory,    \* EventManagement: signal filterCategory
    searchTerm,        \* EventManagement: signal searchTerm
    selectedEvent      \* EventManagement: signal selectedEvent

vars == <<view, store, nextId, now, inflight, events, loading, favorites,
          selectedCategory, filterCategory, searchTerm, selectedEvent>>

homeVars == <<favorites, selectedCategory>>
mgmtVars == <<filterCategory, searchTerm, selectedEvent>>

-----------------------------------------------------------------------------
(* Bounds of the model *)

\* most remote calls awaited at the same time
MaxInFlight == 2
\* most submit and delete commands in one behaviour (the clock ticks at each)
MaxWrites == 1
\* longest favorites index for which a further toggle is still issued
MaxFavLen == 2

-----------------------------------------------------------------------------
(* Session, and JavaScript values *)

\* authService.getCurrentUser().uid of the session; another account
CurrentUser == "u1"
OtherUser == "u2"
\* isAuthenticated(): the session is resolved before the pages run
IsAuthenticated == TRUE

Null == [null |-> TRUE]
Undefined == 0 - 1

\* obj.field of a possibly incomplete object
Id(ev) == IF "id" \in DOMAIN ev THEN ev.id ELSE Undefined
\* event.favorites || []
FavoritesOf(ev) == IF "favorites" \in DOMAIN ev THEN ev.favorites ELSE <<>>

\* {...a, ...b}
Spread(a, b) ==
    IF a = Null THEN b
    ELSE [f \in (DOMAIN a) \cup (DOMAIN b) |-> IF f \in DOMAIN b THEN b[f] ELSE a[f]]

\* arr.includes(x), arr.filter(y => y !== x), arr.filter(p)
Includes(arr, x) == \E i \in 1..Len(arr) : arr[i] = x
Without(arr, x) == SelectSeq(arr, LAMBDA y : y # x)

-----------------------------------------------------------------------------
(* Strings as sequences of characters *)

UpperChars == <<"A", "C", "J", "K", "O", "R", "U", "Z">>
LowerChars == <<"a", "c", "j", "k", "o", "r", "u", "z">>

ToLowerChar(c) ==
    IF \E i \in 1..Len(UpperChars) : UpperChars[i] = c
    THEN LowerChars[CHOOSE i \in 1..Len(UpperChars) : UpperChars[i] = c]
    ELSE c

\* String.prototype.toLowerCase
ToLowerCase(s) == [i \in 1..Len(s) |-> ToLowerChar(s[i])]

\* String.prototype.trim
RECURSIVE TrimStart(_)
TrimStart(s) == IF s # <<>> /\ Head(s) = " " THEN TrimStart(Tail(s)) ELSE s
RECURSIVE TrimEnd(_)
TrimEnd(s) ==
    IF s # <<>> /\ s[Len(s)] = " " THEN TrimEnd(SubSeq(s, 1, Len(s) - 1)) ELSE s
Trim(s) == TrimEnd(TrimStart(s))

\* String.prototype.includes
StrIncludes(s, t) ==
    \E i \in 0..(Len(s) - Len(t)) : SubSeq(s, i + 1, i + Len(t)) = t

-----------------------------------------------------------------------------
(* The remote store *)

CATEGORIES == <<"Sports", "Music", "Social", "Other">>

\* Documents of the collection when the page is mounted.
InitialStore ==
    (1 :> [name |-> <<"R", "o", "c", "k">>, description |-> "d1", datetime |-> 600,
           isPrivate |-> FALSE, category |-> "Music", userId |-> CurrentUser,
           created |-> 1])
    @@
    (2 :> [name |-> <<"R", "u", "n">>, description |-> "d2", datetime |-> 660,
           isPrivate |-> TRUE, category |-> "Sports", userId |-> CurrentUser,
           created |-> 2])
    @@
    (3 :> [name |-> <<"J", "a", "z", "z">>, description |-> "d3", datetime |-> 720,
           isPrivate |-> FALSE, category |-> "Social", userId |-> OtherUser,
           created |-> 3, favorites |-> <<OtherUser, CurrentUser>>])

InitialClock == 4

\* where(field, "==", value) against one document
Matches(data, pred) == pred.field \in DOMAIN data /\ data[pred.field] = pred.value

\* ids in the order the store returns them: by created descending under
\* orderBy("created", "desc"), by document id otherwise
RECURSIVE OrderIds(_, _)
OrderIds(ids, order) ==
    IF ids = {} THEN <<>>
    ELSE LET first ==
                 IF order = "created desc"
                 THEN CHOOSE d \in ids : \A o \in ids :
                          \/ store[d].created > store[o].created
                          \/ store[d].created = store[o].created /\ d >= o
                 ELSE CHOOSE d \in ids : \A o \in ids : d <= o
         IN  <<first>> \o OrderIds(ids \ {first}, order)

\* getDocs(q): the snapshots of the documents that satisfy every predicate
RunQuery(q) ==
    LET hits == {d \in DOMAIN store :
                    \A i \in 1..Len(q.preds) : Matches(store[d], q.preds[i])}
        ids == OrderIds(hits, q.order)
    IN  [i \in 1..Len(ids) |-> [id |-> ids[i], data |-> store[ids[i]]]]

\* arrayUnion(x) / arrayRemove(x) applied to a document's field favorites
ArrayUnion(data, x) ==
    Spread(data, [favorites |->
        IF Includes(FavoritesOf(data), x) THEN FavoritesOf(data)
        ELSE Append(FavoritesOf(data), x)])
ArrayRemove(data, x) ==
    Spread(data, [favorites |-> Without(FavoritesOf(data), x)])

\* { favorites: isFavorite ? arrayRemove(userId) : arrayUnion(userId) } applied
PatchedDoc(data, userId, isFavorite) ==
    IF isFavorite THEN ArrayRemove(data, userId) ELSE ArrayUnion(data, userId)

\* snapshot.docs.map((doc) => ({ id: doc.id, ...doc.data() }))
Materialize(docs) == [i \in 1..Len(docs) |-> Spread([id |-> docs[i].id], docs[i].data)]

\* inflight without its i-th call
RemoveAt(s, i) == SubSeq(s, 1, i - 1) \o SubSeq(s, i + 1, Len(s))

InFlightOf(kinds) == {i \in 1..Len(inflight) : inflight[i].kind \in kinds}

-----------------------------------------------------------------------------
(* Home.jsx *)

HomeCategories == <<"All", "Sports", "Music", "Social", "Other">>

\* faulty variant: a browse query without the visibility predicate
HomeQueryAnyVisibility(category) ==
    [preds |-> (IF category # "All"
                THEN <<[field |-> "category", value |-> category]>>
                ELSE <<>>),
     order |-> "none"]

\* the query loadEvents composes
HomeQuery(category) ==
    [preds |-> <<[field |-> "isPrivate", value |-> FALSE]>>
               \o (IF category # "All"
                   THEN <<[field |-> "category", value |-> category]>>
                   ELSE <<>>),
     order |-> "none"]

\* loadEvents up to its await
HomeLoadCall == [kind |-> "load", q |-> HomeQuery(selectedCategory'), state |-> "sent"]

\* the two effects that call loadEvents, run when selectedCategory changes
HomeEffects ==
    IF IsAuthenticated
    THEN /\ loading' = TRUE
         /\ inflight' = inflight \o <<HomeLoadCall, HomeLoadCall>>
    ELSE UNCHANGED <<loading, inflight>>

\* onClick of a category button
HomeSetSelectedCategory(c) ==
    /\ view = "home"
    /\ IsAuthenticated
    /\ c # selectedCategory
    /\ Len(inflight) + 2 <= MaxInFlight
    /\ selectedCategory' = c
    /\ HomeEffects
    /\ UNCHANGED <<view, store, nextId, now, events, favorites, mgmtVars>>

\* userFavs of loadEvents
UserFavs(loadedEvents) ==
    LET favs == SelectSeq(loadedEvents,
                          LAMBDA ev : Includes(FavoritesOf(ev), CurrentUser))
    IN  [i \in 1..Len(favs) |-> favs[i].id]

\* faulty variant: a loadEvents whose catch empties the collection and the index
HomeLoadResumeClearing(i) ==
    /\ view = "home"
    /\ i \in InFlightOf({"load"})
    /\ inflight[i].state # "sent"
    /\ IF inflight[i].state = "ok"
       THEN /\ events' = Materialize(inflight[i].result)
            /\ favorites' = IF IsAuthenticated
                            THEN UserFavs(Materialize(inflight[i].result))
                            ELSE favorites
       ELSE /\ events' = <<>>
            /\ favorites' = <<>>
    /\ loading' = FALSE
    /\ inflight' = RemoveAt(inflight, i)
    /\ UNCHANGED <<view, store, nextId, now, selectedCategory, mgmtVars>>

\* loadEvents after its await: the try body, or catch; then finally
HomeLoadResume(i) ==
    /\ view = "home"
    /\ i \in InFlightOf({"load"})
    /\ inflight[i].state # "sent"
    /\ IF inflight[i].state = "ok"
       THEN /\ events' = Materialize(inflight[i].result)
            /\ favorites' = IF IsAuthenticated
                            THEN UserFavs(Materialize(inflight[i].result))
                            ELSE favorites
       ELSE UNCHANGED <<events, favorites>>
    /\ loading' = FALSE
    /\ inflight' = RemoveAt(inflight, i)
    /\ UNCHANGED <<view, store, nextId, now, selectedCategory, mgmtVars>>

\* setFavorites(...) of toggleFavorite
ToggledFavorites(favs, eventId, isFavorite) ==
    IF isFavorite THEN Without(favs, eventId) ELSE Append(favs, eventId)

\* setEvents(events().map(...)) of toggleFavorite
ToggledEvents(evs, eventId, userId, isFavorite) ==
    [k \in 1..Len(evs) |->
        IF Id(evs[k]) = eventId
        THEN Spread(evs[k], [favorites |->
                 IF isFavorite THEN Without(FavoritesOf(evs[k]), userId)
                 ELSE Append(FavoritesOf(evs[k]), userId)])
        ELSE evs[k]]

\* toggles in flight that will append to the favorites index
PendingAdds ==
    Cardinality({i \in InFlightOf({"toggle"}) : ~inflight[i].isFavorite})

\* faulty variant: a toggleFavorite that flips the local state before its await
HomeToggleFavoriteOptimistic(eventId) ==
    /\ view = "home"
    /\ IsAuthenticated
    /\ ~loading
    /\ \E k \in 1..Len(events) : Id(events[k]) = eventId
    /\ Len(inflight) < MaxInFlight
    /\ \/ Includes(favorites, eventId)
       \/ Len(favorites) + PendingAdds < MaxFavLen
    /\ inflight' = Append(inflight,
           [kind |-> "toggle", eventId |-> eventId, userId |-> CurrentUser,
            isFavorite |-> Includes(favorites, eventId), state |-> "sent"])
    /\ favorites' = ToggledFavorites(favorites, eventId, Includes(favorites, eventId))
    /\ events' = ToggledEvents(events, eventId, CurrentUser,
                               Includes(favorites, eventId))
    /\ UNCHANGED <<view, store, nextId, now, loading, selectedCategory, mgmtVars>>

\* toggleFavorite up to its await; the heart button is rendered on the cards of
\* events() while loading() is false
HomeToggleFavorite(eventId) ==
    /\ view = "home"
    /\ IsAuthenticated
    /\ ~loading
    /\ \E k \in 1..Len(events) : Id(events[k]) = eventId
    /\ Len(inflight) < MaxInFlight
    /\ \/ Includes(favorites, eventId)
       \/ Len(favorites) + PendingAdds < MaxFavLen
    /\ inflight' = Append(inflight,
           [kind |-> "toggle", eventId |-> eventId, userId |-> CurrentUser,
            isFavorite |-> Includes(favorites, eventId), state |-> "sent"])
    /\ UNCHANGED <<view, store, nextId, now, events, loading, homeVars, mgmtVars>>

\* faulty variant: a toggleFavorite whose flip also runs when the patch was rejected
HomeToggleResumeFlipAnyway(i) ==
    /\ view = "home"
    /\ i \in InFlightOf({"toggle"})
    /\ inflight[i].state # "sent"
    /\ favorites' = ToggledFavorites(favorites, inflight[i].eventId,
                                     inflight[i].isFavorite)
    /\ events' = ToggledEvents(events, inflight[i].eventId,
                               inflight[i].userId, inflight[i].isFavorite)
    /\ inflight' = RemoveAt(inflight, i)
    /\ UNCHANGED <<view, store, nextId, now, loading, selectedCategory, mgmtVars>>

\* toggleFavorite after its await: the rest of the try body, or catch
HomeToggleResume(i) ==
    /\ view = "home"
    /\ i \in InFlightOf({"toggle"})
    /\ inflight[i].state # "sent"
    /\ IF inflight[i].state = "ok"
       THEN /\ favorites' = ToggledFavorites(favorites, inflight[i].eventId,
                                             inflight[i].isFavorite)
            /\ events' = ToggledEvents(events, inflight[i].eventId,
                                       inflight[i].userId, inflight[i].isFavorite)
       ELSE UNCHANGED <<events, favorites>>
    /\ inflight' = RemoveAt(inflight, i)
    /\ UNCHANGED <<view, store, nextId, now, loading, selectedCategory, mgmtVars>>

-----------------------------------------------------------------------------
(* The store's side of a remote call *)

\* getDocs(q) is answered
StoreQuery(i) ==
    /\ i \in InFlightOf({"load", "search"})
    /\ inflight[i].state = "sent"
    /\ inflight' = [inflight EXCEPT ![i] =
           Spread(@, [state |-> "ok", result |-> RunQuery(inflight[i].q)])]
    /\ UNCHANGED <<view, store, nextId, now, events, loading, homeVars, mgmtVars>>

\* updateDoc(eventRef, {favorites: arrayUnion / arrayRemove}) is applied; an
\* update of a document that does not exist is rejected
StorePatch(i) ==
    /\ i \in InFlightOf({"toggle"})
    /\ inflight[i].state = "sent"
    /\ LET c == inflight[i] IN
       IF c.eventId \in DOMAIN store
       THEN /\ store' = [store EXCEPT ![c.eventId] =
                   PatchedDoc(@, c.userId, c.isFavorite)]
            /\ inflight' = [inflight EXCEPT ![i].state = "ok"]
       ELSE /\ inflight' = [inflight EXCEPT ![i].state = "failed"]
            /\ UNCHANGED store
    /\ UNCHANGED <<view, nextId, now, events, loading, homeVars, mgmtVars>>

\* addDoc(collection(db, "events"), eventData) is applied under a new id
StoreAdd(i) ==
    /\ i \in InFlightOf({"add"})
    /\ inflight[i].state = "sent"
    /\ store' = store @@ (nextId :> inflight[i].data)
    /\ nextId' = nextId + 1
    /\ inflight' = [inflight EXCEPT ![i] = Spread(@, [state |-> "ok", docId |-> nextId])]
    /\ UNCHANGED <<view, now, events, loading, homeVars, mgmtVars>>

\* updateDoc(docRef, eventData) is applied: the fields of eventData are
\* overwritten, the others kept; a document that does not exist is not updated
StoreUpdate(i) ==
    /\ i \in InFlightOf({"update"})
    /\ inflight[i].state = "sent"
    /\ LET c == inflight[i] IN
       IF c.docId \in DOMAIN store
       THEN /\ store' = [store EXCEPT ![c.docId] = Spread(@, c.data)]
            /\ inflight' = [inflight EXCEPT ![i].state = "ok"]
       ELSE /\ inflight' = [inflight EXCEPT ![i].state = "failed"]
            /\ UNCHANGED store
    /\ UNCHANGED <<view, nextId, now, events, loading, homeVars, mgmtVars>>

\* deleteDoc(docRef) is applied
StoreDelete(i) ==
    /\ i \in InFlightOf({"delete"})
    /\ inflight[i].state = "sent"
    /\ store' = [d \in (DOMAIN store) \ {inflight[i].docId} |-> store[d]]
    /\ inflight' = [inflight EXCEPT ![i].state = "ok"]
    /\ UNCHANGED <<view, nextId, now, events, loading, homeVars, mgmtVars>>

\* the call fails (connectivity, permission): its promise rejects
StoreReject(i) ==
    /\ i \in 1..Len(inflight)
    /\ inflight[i].state = "sent"
    /\ inflight' = [inflight EXCEPT ![i].state = "failed"]
    /\ UNCHANGED <<view, store, nextId, now, events, loading, homeVars, mgmtVars>>

-----------------------------------------------------------------------------
(* EventManagement.jsx *)

\* faulty variant: an owner query without the owner predicate
MgmtQueryAnyOwner(category) ==
    [preds |-> (IF category # ""
                THEN <<[field |-> "category", value |-> category]>>
                ELSE <<>>),
     order |-> "created desc"]

\* the query loadEvents and searchEvents compose
MgmtQuery(category) ==
    [preds |-> <<[field |-> "userId", value |-> CurrentUser]>>
               \o (IF category # ""
                   THEN <<[field |-> "category", value |-> category]>>
                   ELSE <<>>),
     order |-> "created desc"]

\* loadEvents up to its await, filterCategory() being category
MgmtLoadEvents(category) ==
    /\ loading' = TRUE
    /\ inflight' = Append(inflight,
           [kind |-> "load", q |-> MgmtQuery(category), state |-> "sent"])

\* onChange of the category select; the effect that calls loadEvents reruns
MgmtSetFilterCategory(c) ==
    /\ view = "mgmt"
    /\ c # filterCategory
    /\ Len(inflight) < MaxInFlight
    /\ filterCategory' = c
    /\ MgmtLoadEvents(c)
    /\ UNCHANGED <<view, store, nextId, now, events, homeVars,
                   searchTerm, selectedEvent>>

\* onInput of the search box
MgmtSetSearchTerm(t) ==
    /\ view = "mgmt"
    /\ t # searchTerm
    /\ searchTerm' = t
    /\ UNCHANGED <<view, store, nextId, now, inflight, events, loading, homeVars,
                   filterCategory, selectedEvent>>

\* const term = searchTerm().toLowerCase().trim()
SearchTermOf(raw) == Trim(ToLowerCase(raw))

\* faulty variant: a searchEvents that sets the indicator before its early return
MgmtSearchEventsStuck ==
    /\ view = "mgmt"
    /\ Len(inflight) < MaxInFlight
    /\ loading' = TRUE
    /\ LET term == SearchTermOf(searchTerm) IN
       IF term = <<>> \/ Len(term) <= 2
       THEN UNCHANGED inflight
       ELSE inflight' = Append(inflight,
                [kind |-> "search", q |-> MgmtQuery(filterCategory), term |-> term,
                 state |-> "sent"])
    /\ UNCHANGED <<view, store, nextId, now, events, homeVars, mgmtVars>>

\* searchEvents up to its await, or its early return through loadEvents
MgmtSearchEvents ==
    /\ view = "mgmt"
    /\ Len(inflight) < MaxInFlight
    /\ LET term == SearchTermOf(searchTerm) IN
       IF term = <<>> \/ Len(term) <= 2
       THEN MgmtLoadEvents(filterCategory)
       ELSE /\ loading' = TRUE
            /\ inflight' = Append(inflight,
                   [kind |-> "search", q |-> MgmtQuery(filterCategory), term |-> term,
                    state |-> "sent"])
    /\ UNCHANGED <<view, store, nextId, now, events, homeVars, mgmtVars>>

\* faulty variant: a filter that compares the name as stored
FilterByNameCaseSensitive(evs, term) ==
    SelectSeq(evs, LAMBDA ev : "name" \in DOMAIN ev /\ StrIncludes(ev.name, term))

\* .filter((event) => event.name?.toLowerCase().includes(term))
FilterByName(evs, term) ==
    SelectSeq(evs, LAMBDA ev :
        "name" \in DOMAIN ev /\ StrIncludes(ToLowerCase(ev.name), term))

\* faulty variant: a loadEvents that drops its result when a later call is in flight
MgmtLoadResumeLatestWins(i) ==
    /\ view = "mgmt"
    /\ i \in InFlightOf({"load", "search"})
    /\ inflight[i].state # "sent"
    /\ IF inflight[i].state = "ok" /\ ~(\E j \in InFlightOf({"load", "search"}) : j > i)
       THEN events' = IF inflight[i].kind = "search"
                      THEN FilterByName(Materialize(inflight[i].result),
                                        inflight[i].term)
                      ELSE Materialize(inflight[i].result)
       ELSE UNCHANGED events
    /\ loading' = FALSE
    /\ inflight' = RemoveAt(inflight, i)
    /\ UNCHANGED <<view, store, nextId, now, homeVars, mgmtVars>>

\* loadEvents / searchEvents after the await: the try body, or catch; finally
MgmtLoadResume(i) ==
    /\ view = "mgmt"
    /\ i \in InFlightOf({"load", "search"})
    /\ inflight[i].state # "sent"
    /\ IF inflight[i].state = "ok"
       THEN events' = IF inflight[i].kind = "search"
                      THEN FilterByName(Materialize(inflight[i].result),
                                        inflight[i].term)
                      ELSE Materialize(inflight[i].result)
       ELSE UNCHANGED events
    /\ loading' = FALSE
    /\ inflight' = RemoveAt(inflight, i)
    /\ UNCHANGED <<view, store, nextId, now, homeVars, mgmtVars>>

\* onClick of a card of the list, rendered while events() is not empty and
\* loading() is false
MgmtSelectEvent(k) ==
    /\ view = "mgmt"
    /\ ~loading
    /\ k \in 1..Len(events)
    /\ selectedEvent # events[k]
    /\ selectedEvent' = events[k]
    /\ UNCHANGED <<view, store, nextId, now, inflight, events, loading, homeVars,
                   filterCategory, searchTerm>>

\* onClick of Odustani, rendered while an event is selected
MgmtCancel ==
    /\ view = "mgmt"
    /\ selectedEvent # Null
    /\ selectedEvent' = Null
    /\ UNCHANGED <<view, store, nextId, now, inflight, events, loading, homeVars,
                   filterCategory, searchTerm>>

\* getTimezoneOffset() of the session, in minutes
TimezoneOffset == 0 - 60
\* new Date(data.get("datetime")): a datetime-local value is local wall-clock time
NewDate(wallClock) == wallClock + TimezoneOffset

\* faulty variant: an eventData that also carries an empty favorites array
EventDataWithFavorites(form) ==
    [name |-> Trim(form.name),
     description |-> Trim(form.description),
     datetime |-> NewDate(form.datetime),
     isPrivate |-> form.isPrivate # "null",
     category |-> IF form.category = "" THEN "Other" ELSE form.category,
     userId |-> CurrentUser,
     created |-> now,
     favorites |-> <<>>]

\* eventData of handleSubmit
EventData(form) ==
    [name |-> Trim(form.name),
     description |-> Trim(form.description),
     datetime |-> NewDate(form.datetime),
     isPrivate |-> form.isPrivate # "null",
     category |-> IF form.category = "" THEN "Other" ELSE form.category,
     userId |-> CurrentUser,
     created |-> now]

\* handleSubmit up to its await; doc(db, "events", undefined) throws into catch
MgmtHandleSubmit(form) ==
    /\ view = "mgmt"
    /\ now < InitialClock + MaxWrites
    /\ Len(inflight) < MaxInFlight
    /\ now' = now + 1
    /\ IF selectedEvent # Null
       THEN IF Id(selectedEvent) = Undefined
            THEN UNCHANGED inflight
            ELSE inflight' = Append(inflight,
                     [kind |-> "update", docId |-> selectedEvent.id,
                      data |-> EventData(form), state |-> "sent"])
       ELSE inflight' = Append(inflight,
                [kind |-> "add", data |-> EventData(form), state |-> "sent"])
    /\ UNCHANGED <<view, store, nextId, events, loading, homeVars,
                   filterCategory, searchTerm, selectedEvent>>

\* events().map((ev) => ev.id === selectedEvent().id ? { ...ev, ...eventData } : ev)
UpdatedEvents(evs, sel, data) ==
    [k \in 1..Len(evs) |-> IF Id(evs[k]) = Id(sel) THEN Spread(evs[k], data) ELSE evs[k]]

\* faulty variant: an append that forgets the id the store assigned
AddedEventsNoId(evs, docId, data) == Append(evs, data)

\* [...events(), { id: docRef.id, ...eventData }]
AddedEvents(evs, docId, data) == Append(evs, Spread([id |-> docId], data))

\* handleSubmit after its await: the rest of the try body, or catch.  Reading
\* selectedEvent().id of a null selection, once per entry of events(), throws
MgmtSubmitResume(i) ==
    /\ view = "mgmt"
    /\ i \in InFlightOf({"add", "update"})
    /\ inflight[i].state # "sent"
    /\ LET c == inflight[i] IN
       IF c.state = "failed"
       THEN UNCHANGED <<events, selectedEvent>>
       ELSE IF c.kind = "add"
       THEN /\ events' = AddedEvents(events, c.docId, c.data)
            /\ UNCHANGED selectedEvent
       ELSE IF selectedEvent = Null /\ events # <<>>
       THEN UNCHANGED <<events, selectedEvent>>
       ELSE /\ events' = UpdatedEvents(events, selectedEvent, c.data)
            /\ selectedEvent' = Spread(selectedEvent, c.data)
    /\ inflight' = RemoveAt(inflight, i)
    /\ UNCHANGED <<view, store, nextId, now, loading, homeVars,
                   filterCategory, searchTerm>>

\* handleDelete up to its await, the confirm() answered yes; the button is
\* rendered while an event is selected
MgmtHandleDelete ==
    /\ view = "mgmt"
    /\ selectedEvent # Null
    /\ Len(inflight) < MaxInFlight
    /\ now < InitialClock + MaxWrites
    /\ now' = now + 1
    /\ IF Id(selectedEvent) = Undefined
       THEN UNCHANGED inflight
       ELSE inflight' = Append(inflight,
                [kind |-> "delete", docId |-> selectedEvent.id, state |-> "sent"])
    /\ UNCHANGED <<view, store, nextId, events, loading, homeVars,
                   filterCategory, searchTerm, selectedEvent>>

\* events().filter((ev) => ev.id !== selectedEvent().id)
DeletedEvents(evs, sel) == SelectSeq(evs, LAMBDA ev : Id(ev) # Id(sel))

\* handleDelete after its await: the rest of the try body, or catch
MgmtDeleteResume(i) ==
    /\ view = "mgmt"
    /\ i \in InFlightOf({"delete"})
    /\ inflight[i].state # "sent"
    /\ IF inflight[i].state = "failed" \/ (selectedEvent = Null /\ events # <<>>)
       THEN UNCHANGED <<events, selectedEvent>>
       ELSE /\ events' = DeletedEvents(events, selectedEvent)
            /\ selectedEvent' = Null
    /\ inflight' = RemoveAt(inflight, i)
    /\ UNCHANGED <<view, store, nextId, now, loading, homeVars,
                   filterCategory, searchTerm>>

-----------------------------------------------------------------------------

\* Home after mount: both effects have called loadEvents
InitHome ==
    /\ view = "home"
    /\ selectedCategory = "All"
    /\ favorites = <<>>
    /\ events = <<>>
    /\ IF IsAuthenticated
       THEN /\ loading = TRUE
            /\ inflight = <<[kind |-> "load", q |-> HomeQuery("All"), state |-> "sent"],
                            [kind |-> "load", q |-> HomeQuery("All"), state |-> "sent"]>>
       ELSE /\ loading = FALSE
            /\ inflight = <<>>
    /\ filterCategory = ""
    /\ searchTerm = <<>>
    /\ selectedEvent = Null

\* EventManagement after mount: the effect has called loadEvents
InitMgmt ==
    /\ view = "mgmt"
    /\ filterCategory = ""
    /\ searchTerm = <<>>
    /\ selectedEvent = Null
    /\ events = <<>>
    /\ loading = TRUE
    /\ inflight = <<[kind |-> "load", q |-> MgmtQuery(""), state |-> "sent"]>>
    /\ selectedCategory = "All"
    /\ favorites = <<>>

InitStore ==
    /\ store = InitialStore
    /\ nextId = 1 + Cardinality(DOMAIN InitialStore)
    /\ now = InitialClock

HomeInit == InitStore /\ InitHome
MgmtInit == InitStore /\ InitMgmt
Init == HomeInit \/ MgmtInit

\* what the user chooses and types
BrowseChoices == {"All", "Music", "Sports"}
FilterChoices == {"", "Music", "Social"}
SearchTerms == {<<>>, <<"R", "O", "C">>, <<"r", "u", " ">>}
FormInputs ==
    {[name |-> <<"R", "o", "c", " ">>, description |-> <<" ", "a">>, datetime |-> 780,
      isPrivate |-> "null", category |-> "Music"],
     [name |-> <<"Z", "u">>, description |-> <<"k">>, datetime |-> 840,
      isPrivate |-> "on", category |-> "Other"]}

\* the steps of the public-browse page, the store always answering with success
HomeNextReliable ==
    \/ \E c \in BrowseChoices : HomeSetSelectedCategory(c)
    \/ \E i \in 1..Len(inflight) : HomeLoadResume(i)
    \/ \E e \in DOMAIN store : HomeToggleFavorite(e)
    \/ \E i \in 1..Len(inflight) : HomeToggleResume(i)
    \/ \E i \in 1..Len(inflight) : StoreQuery(i)
    \/ \E i \in 1..Len(inflight) : StorePatch(i)

\* the steps of the public-browse page
HomeNext ==
    \/ HomeNextReliable
    \/ \E i \in 1..Len(inflight) : StoreReject(i)

\* the steps of the owner-management page
MgmtNext ==
    \/ \E c \in FilterChoices : MgmtSetFilterCategory(c)
    \/ \E t \in SearchTerms : MgmtSetSearchTerm(t)
    \/ MgmtSearchEvents
    \/ \E i \in 1..Len(inflight) : MgmtLoadResume(i)
    \/ \E k \in 1..Len(events) : MgmtSelectEvent(k)
    \/ MgmtCancel
    \/ \E form \in FormInputs : MgmtHandleSubmit(form)
    \/ \E i \in 1..Len(inflight) : MgmtSubmitResume(i)
    \/ MgmtHandleDelete
    \/ \E i \in 1..Len(inflight) : MgmtDeleteResume(i)
    \/ \E i \in 1..Len(inflight) : StoreQuery(i)
    \/ \E i \in 1..Len(inflight) : StoreAdd(i)
    \/ \E i \in 1..Len(inflight) : StoreUpdate(i)
    \/ \E i \in 1..Len(inflight) : StoreDelete(i)
    \/ \E i \in 1..Len(inflight) : StoreReject(i)

Next == HomeNext \/ MgmtNext

\* toggleFavorite of the same user's public-browse page open in another tab:
\* its updateDoc(eventRef, {favorites: ...}) reaches the store, isFavorite being
\* what that tab's favorites index said
BrowseTabPatch(eventId, isFavorite) ==
    /\ view = "mgmt"
    /\ eventId \in DOMAIN store
    /\ store' = [store EXCEPT ![eventId] = PatchedDoc(@, CurrentUser, isFavorite)]
    /\ UNCHANGED <<view, nextId, now, inflight, events, loading, homeVars, mgmtVars>>

\* the owner's edits and creates, while favourites are toggled from another tab
WritesNext ==
    \/ \E i \in 1..Len(inflight) : MgmtLoadResume(i)
    \/ \E k \in 1..Len(events) : MgmtSelectEvent(k)
    \/ \E form \in FormInputs : MgmtHandleSubmit(form)
    \/ \E i \in 1..Len(inflight) : MgmtSubmitResume(i)
    \/ \E i \in 1..Len(inflight) : StoreQuery(i)
    \/ \E i \in 1..Len(inflight) : StoreAdd(i)
    \/ \E i \in 1..Len(inflight) : StoreUpdate(i)
    \/ \E e \in DOMAIN store : \E b \in BOOLEAN : BrowseTabPatch(e, b)

\* either page
Spec == Init /\ [][Next]_vars
\* the public-browse page
SpecHome == HomeInit /\ [][HomeNext]_vars
\* the public-browse page over a store that rejects nothing
SpecHomeReliable == HomeInit /\ [][HomeNextReliable]_vars
\* the owner-management page
SpecMgmt == MgmtInit /\ [][MgmtNext]_vars
\* the two write paths against the same documents
SpecWrites == MgmtInit /\ [][WritesNext]_vars

-----------------------------------------------------------------------------
(* Steps, as seen from the two states of a step *)

\* the continuation of the i-th call in flight runs in this step
Resumed(i) ==
    /\ i \in 1..Len(inflight)
    /\ inflight[i].state # "sent"
    /\ inflight' = RemoveAt(inflight, i)

\* a handler issues a call of one of these kinds in this step
Issued(kinds) ==
    /\ Len(inflight') > Len(inflight)
    /\ SubSeq(inflight', 1, Len(inflight)) = inflight
    /\ \E j \in (Len(inflight) + 1)..Len(inflight') : inflight'[j].kind \in kinds

\* the local membership bit of toggle c's event is the opposite of what it was
\* when c was issued, in the favorites index and in the local collection
Flipped(favs, evs, c) ==
    /\ Includes(favs, c.eventId) = ~c.isFavorite
    /\ \A k \in 1..Len(evs) :
           Id(evs[k]) = c.eventId =>
               (Includes(FavoritesOf(evs[k]), c.userId) = ~c.isFavorite)

-----------------------------------------------------------------------------
(* Claims *)

RemoteBit(e) == e \in DOMAIN store /\ Includes(FavoritesOf(store[e]), CurrentUser)

\* the members of a favoritedBy array
Members(arr) == {arr[j] : j \in 1..Len(arr)}

\* favorites index, local collection and remote document of event e after one
\* toggleFavorite(e) on <<favs, evs, doc>> that ran to completion with success
AfterToggle(favs, evs, doc, e) ==
    LET isFavorite == Includes(favs, e)
    IN  [favs |-> ToggledFavorites(favs, e, isFavorite),
         evs |-> ToggledEvents(evs, e, CurrentUser, isFavorite),
         doc |-> PatchedDoc(doc, CurrentUser, isFavorite),
         patch |-> IF isFavorite THEN "remove" ELSE "add"]

\* C3: with nothing in flight, two successive successful toggles of an event of
\* the local collection restore the membership bit, the event's local
\* favoritedBy and its remote favoritedBy (same members, same cardinality), and
\* the two patches are one add and one remove.
C3_DoubleToggleRestores ==
    (view = "home" /\ inflight = <<>>) =>
        \A k \in 1..Len(events) :
            LET e == Id(events[k])
                one == AfterToggle(favorites, events, store[e], e)
                two == AfterToggle(one.favs, one.evs, one.doc, e)
            IN  /\ Includes(two.favs, e) = Includes(favorites, e)
                /\ Members(FavoritesOf(two.evs[k])) = Members(FavoritesOf(events[k]))
                /\ Len(FavoritesOf(two.evs[k])) = Len(FavoritesOf(events[k]))
                /\ Members(FavoritesOf(two.doc)) = Members(FavoritesOf(store[e]))
                /\ Len(FavoritesOf(two.doc)) = Len(FavoritesOf(store[e]))
                /\ {one.patch, two.patch} = {"add", "remove"}

\* C4: whenever no load and no toggle is in flight, the membership bit of every
\* event of the local collection (favorites index and local favoritedBy) equals
\* the current user's membership in the remote favoritedBy.  Checked over a
\* store that rejects nothing.
C4_MirrorMatchesRemote ==
    (view = "home" /\ inflight = <<>>) =>
        \A k \in 1..Len(events) :
            /\ Includes(favorites, Id(events[k])) = RemoteBit(Id(events[k]))
            /\ Includes(FavoritesOf(events[k]), CurrentUser) = RemoteBit(Id(events[k]))

\* C5: when the continuation of a delete that succeeded remotely has run, the
\* selection is None and the local collection is the one before it without
\* exactly the entry of the deleted document, whatever was selected meanwhile.
C5_DeleteRemovesItsEvent ==
    [][\A i \in InFlightOf({"delete"}) :
           (Resumed(i) /\ inflight[i].state = "ok") =>
               /\ selectedEvent' = Null
               /\ events' = SelectSeq(events,
                                LAMBDA ev : Id(ev) # inflight[i].docId)]_vars

\* C6: when the continuation of an update that succeeded remotely has run, the
\* local entry of the updated document is merged with the submitted fields,
\* every other entry is unchanged and the updated event is still selected,
\* whatever was selected meanwhile.
C6_UpdateMergesItsEvent ==
    [][\A i \in InFlightOf({"update"}) :
           (Resumed(i) /\ inflight[i].state = "ok") =>
               /\ events' = [k \in 1..Len(events) |->
                                IF Id(events[k]) = inflight[i].docId
                                THEN Spread(events[k], inflight[i].data)
                                ELSE events[k]]
               /\ Id(selectedEvent') = inflight[i].docId]_vars

\* C7: the continuation of a create that succeeded remotely appends exactly one
\* entry to the local collection, with the id the store assigned and every
\* submitted field (userId the current user), leaving the prior entries as
\* they were; and neither the call nor the continuation of a create issues a
\* remote query or replaces the collection.
C7_CreateAppendsOne ==
    [][/\ \A i \in InFlightOf({"add"}) :
              (Resumed(i) /\ inflight[i].state = "ok") =>
                  /\ Len(events') = Len(events) + 1
                  /\ SubSeq(events', 1, Len(events)) = events
                  /\ Id(events'[Len(events')]) = inflight[i].docId
                  /\ inflight[i].docId \in 1..(nextId - 1)
                  /\ \A f \in DOMAIN inflight[i].data :
                         /\ f \in DOMAIN events'[Len(events')]
                         /\ events'[Len(events')][f] = inflight[i].data[f]
                  /\ events'[Len(events')].userId = CurrentUser
       /\ (Issued({"add"}) \/ \E i \in InFlightOf({"add"}) : Resumed(i)) =>
              /\ ~Issued({"load", "search"})
              /\ \A j \in 1..Len(inflight') :
                     inflight'[j].kind \in {"load", "search"} =>
                         \E i \in 1..Len(inflight) : inflight[i] = inflight'[j]
       /\ Issued({"add"}) => UNCHANGED events]_vars

\* the entry of a created document was appended behind the loaded entries: a
\* reload would have put the newest document first
C7_Witness ==
    /\ view = "mgmt"
    /\ Len(events) = 3
    /\ Id(events[3]) = nextId - 1
    /\ events[3].created > events[1].created
    /\ events[3].name = <<"R", "o", "c">>

\* C8: no result of a load is discarded: a call leaves inflight only through
\* its own continuation, and the continuation of every load the store answered
\* installs that load's result as the local collection, whichever other loads
\* were issued before or after it and whether they have resolved or not.
C8_LastResolvedLoadWins ==
    [][/\ Len(inflight') < Len(inflight) => \E i \in 1..Len(inflight) : Resumed(i)
       /\ \A i \in InFlightOf({"load"}) :
              (Resumed(i) /\ inflight[i].state = "ok") =>
                  events' = Materialize(inflight[i].result)]_vars

\* the load issued for the selected category has resolved and is displayed,
\* while the load issued earlier for another category is answered and about to
\* resolve last
C8_Witness ==
    /\ view = "mgmt"
    /\ store = InitialStore
    /\ filterCategory = "Music"
    /\ ~loading
    /\ events = Materialize(RunQuery(MgmtQuery("Music")))
    /\ Len(inflight) = 1
    /\ inflight[1].kind = "load"
    /\ inflight[1].state = "ok"
    /\ inflight[1].q = MgmtQuery("")
    /\ Materialize(inflight[1].result) # events

\* C9: the continuation of a load or search whose remote query failed leaves
\* the local collection as it was, and the favorites index too.
C9_FailedQueryKeepsCollection ==
    [][\A i \in InFlightOf({"load", "search"}) :
           (Resumed(i) /\ inflight[i].state = "failed") =>
               UNCHANGED <<events, favorites>>]_vars

\* the query of a load of the public-browse page failed while events are shown
\* and one of them is in the favorites index
C9_Witness ==
    /\ view = "home"
    /\ events # <<>>
    /\ favorites # <<>>
    /\ \E i \in InFlightOf({"load"}) : inflight[i].state = "failed"

\* no load and no search is in flight
QueriesIdle == InFlightOf({"load", "search"}) = {}

\* C10: the in-flight indicator is true after a load or search has issued its
\* remote query, false after the continuation of a load or search has run, and
\* false whenever every issued load and search has completed.
C10_IndicatorClearedOnExit ==
    /\ [](QueriesIdle => ~loading)
    /\ [][/\ Issued({"load", "search"}) => loading'
          /\ (\E i \in InFlightOf({"load", "search"}) : Resumed(i)) => ~loading'
         ]_vars

\* a search with a degenerate term has returned through loadEvents: the call it
\* issued is a load, awaited next to the load of the mount, indicator set
C10_Witness ==
    /\ view = "mgmt"
    /\ SearchTermOf(searchTerm) # <<>>
    /\ Len(SearchTermOf(searchTerm)) <= 2
    /\ filterCategory = ""
    /\ loading
    /\ Len(inflight) = 2
    /\ \A i \in 1..2 : inflight[i].kind = "load" /\ inflight[i].q = MgmtQuery("")

\* the ids of the entries of a collection or of the snapshots of a result
IdsOf(seq) == {Id(seq[k]) : k \in 1..Len(seq)}

\* C11: in the public-browse view every event of the local collection has
\* isPrivate = false, whatever was loaded and toggled; and the result the
\* store gave to a browse query holds exactly the stored documents that are
\* not private and, when a concrete category was selected, are of that
\* category (a private document of the selected category is left out).
C11_BrowseShowsNoPrivateEvent ==
    view = "home" =>
        /\ \A k \in 1..Len(events) :
               "isPrivate" \in DOMAIN events[k] /\ events[k].isPrivate = FALSE
        /\ \A i \in InFlightOf({"load"}) :
               inflight[i].state = "ok" =>
                   \A k \in 1..Len(inflight[i].result) :
                       inflight[i].result[k].data.isPrivate = FALSE
        /\ \A c \in {HomeCategories[j] : j \in 1..Len(HomeCategories)} :
               IdsOf(RunQuery(HomeQuery(c))) =
                   {d \in DOMAIN store :
                       /\ store[d].isPrivate = FALSE
                       /\ c # "All" => store[d].category = c}

\* browsing with Sports has resolved with an empty collection although the
\* store holds a private Sports event; nothing is in flight
C11_Witness ==
    /\ view = "home"
    /\ selectedCategory = "Sports"
    /\ inflight = <<>>
    /\ ~loading
    /\ events = <<>>
    /\ \E d \in DOMAIN store : store[d].category = "Sports" /\ store[d].isPrivate

\* the values query q requires of a field
Required(q, field) ==
    {q.preds[j].value : j \in {n \in 1..Len(q.preds) : q.preds[n].field = field}}

\* the stored documents of the session user, of category c when c is concrete
OwnedOf(c) ==
    {d \in DOMAIN store :
        /\ store[d].userId = CurrentUser
        /\ c # "" => store[d].category = c}

\* C12: every query the owner-management view composes, by a load or by a
\* search, requires userId = the session user, and requires category = c
\* exactly when a concrete category c is selected (nothing else is required);
\* the store answers it with exactly the stored events of that user and, when
\* a category is selected, of that category; and so does an owner-scoped load
\* for each of the four categories over every store content reached.
C12_OwnerQueryPredicates ==
    /\ [](view = "mgmt" =>
             \A j \in 1..Len(CATEGORIES) :
                 LET docs == RunQuery(MgmtQuery(CATEGORIES[j]))
                 IN  /\ IdsOf(docs) = OwnedOf(CATEGORIES[j])
                     /\ Len(docs) = Cardinality(OwnedOf(CATEGORIES[j])))
    /\ [][view = "mgmt" =>
             /\ Issued({"load", "search"}) =>
                    LET q == inflight'[Len(inflight')].q
                    IN  /\ Required(q, "userId") = {CurrentUser}
                        /\ Required(q, "category") =
                               (IF filterCategory' = "" THEN {} ELSE {filterCategory'})
                        /\ \A n \in 1..Len(q.preds) :
                               q.preds[n].field \in {"userId", "category"}
             /\ \A i \in InFlightOf({"load", "search"}) :
                    (/\ inflight[i].state = "sent"
                     /\ Len(inflight') = Len(inflight)
                     /\ inflight'[i].state = "ok") =>
                        \E c \in {""} \cup Required(inflight[i].q, "category") :
                            /\ Required(inflight[i].q, "category") \subseteq {c}
                            /\ IdsOf(inflight'[i].result) = OwnedOf(c)
                            /\ (c = "") = (Required(inflight[i].q, "category") = {})
       ]_vars

\* a load with Social selected has resolved with an empty collection although
\* the store holds a Social event of another user
C12_Witness ==
    /\ view = "mgmt"
    /\ filterCategory = "Social"
    /\ inflight = <<>>
    /\ ~loading
    /\ events = <<>>
    /\ \E d \in DOMAIN store :
           store[d].category = "Social" /\ store[d].userId # CurrentUser

\* two strings are equal up to the case of their letters
SameIgnoringCase(a, b) ==
    /\ Len(a) = Len(b)
    /\ \A j \in 1..Len(a) : ToLowerChar(a[j]) = ToLowerChar(b[j])

\* name contains t, case-insensitively
ContainsIgnoringCase(name, t) ==
    \E i \in 0..(Len(name) - Len(t)) :
        SameIgnoringCase(SubSeq(name, i + 1, i + Len(t)), t)

\* C13: a search whose trimmed term has length <= 2 issues the plain load of
\* the scoped and category-filtered query, and the load's result becomes the
\* collection unfiltered; a search whose trimmed term t has length > 2 issues
\* the same query, and when it completes the collection is exactly the
\* entries of the result, in order, whose name contains t case-insensitively.
C13_SearchSemantics ==
    [][view = "mgmt" =>
          /\ (Issued({"load", "search"}) /\ filterCategory' = filterCategory) =>
                 LET t == Trim(searchTerm)
                     c == inflight'[Len(inflight')]
                 IN  /\ Len(inflight') = Len(inflight) + 1
                     /\ Required(c.q, "userId") = {CurrentUser}
                     /\ Required(c.q, "category") =
                            (IF filterCategory = "" THEN {} ELSE {filterCategory})
                     /\ IF Len(t) <= 2
                        THEN c.kind = "load"
                        ELSE c.kind = "search" /\ SameIgnoringCase(c.term, t)
          /\ \A i \in InFlightOf({"load", "search"}) :
                 (Resumed(i) /\ inflight[i].state = "ok") =>
                     LET scoped == Materialize(inflight[i].result)
                     IN  IF inflight[i].kind = "load"
                         THEN events' = scoped
                         ELSE events' = SelectSeq(scoped, LAMBDA ev :
                                  /\ "name" \in DOMAIN ev
                                  /\ ContainsIgnoringCase(ev.name, inflight[i].term))
      ]_vars

\* the search for "ROC" has completed over two events of the user, Rock and
\* Run: the collection holds Rock alone
C13_Witness ==
    /\ view = "mgmt"
    /\ searchTerm = <<"R", "O", "C">>
    /\ filterCategory = ""
    /\ inflight = <<>>
    /\ Cardinality(OwnedOf("")) = 2
    /\ Len(events) = 1
    /\ events[1].name = <<"R", "o", "c", "k">>

\* the store applies, in this step, a call of one of these kinds
Applied(kinds) ==
    \E i \in InFlightOf(kinds) :
        /\ inflight[i].state = "sent"
        /\ Len(inflight') = Len(inflight)
        /\ inflight'[i].state = "ok"

\* the fields of a document other than favoritedBy
OtherFields(data) == (DOMAIN data) \ {"favorites"}

\* C14: when the store applies an owner's update, the favoritedBy of the
\* updated document is what it was (and no other document changes) while its
\* other fields take the submitted values; when the store applies a favorite
\* toggle, no field other than favoritedBy changes in any document and
\* favoritedBy changes at most by the current user's id being added or
\* removed; and an update awaiting the store commutes with a toggle of the
\* same document, so the order in which the store applies them does not
\* matter to the final document.
C14_WritePathsDoNotClobber ==
    /\ [](\A i \in InFlightOf({"update"}) :
             (inflight[i].state = "sent" /\ inflight[i].docId \in DOMAIN store) =>
                 \A b \in BOOLEAN :
                     LET doc == store[inflight[i].docId]
                     IN  Spread(PatchedDoc(doc, CurrentUser, b), inflight[i].data)
                           = PatchedDoc(Spread(doc, inflight[i].data), CurrentUser, b))
    /\ [][/\ \A i \in InFlightOf({"update"}) :
                (/\ inflight[i].state = "sent"
                 /\ Len(inflight') = Len(inflight)
                 /\ inflight'[i].state = "ok") =>
                    LET d == inflight[i].docId
                    IN  /\ DOMAIN store' = DOMAIN store
                        /\ \A o \in (DOMAIN store) \ {d} : store'[o] = store[o]
                        /\ ("favorites" \in DOMAIN store'[d])
                               = ("favorites" \in DOMAIN store[d])
                        /\ FavoritesOf(store'[d]) = FavoritesOf(store[d])
                        /\ \A f \in OtherFields(inflight[i].data) :
                               store'[d][f] = inflight[i].data[f]
          /\ (store' # store /\ ~Applied({"add", "update", "delete"})) =>
                /\ DOMAIN store' = DOMAIN store
                /\ \A d \in DOMAIN store :
                       /\ OtherFields(store'[d]) = OtherFields(store[d])
                       /\ \A f \in OtherFields(store[d]) : store'[d][f] = store[d][f]
                       /\ Without(FavoritesOf(store'[d]), CurrentUser)
                              = Without(FavoritesOf(store[d]), CurrentUser)
                       /\ Members(FavoritesOf(store'[d])) \in
                              {Members(FavoritesOf(store[d])) \cup {CurrentUser},
                               Members(FavoritesOf(store[d])) \ {CurrentUser}}
      ]_vars

\* document 1 has been edited by its owner (new creation stamp) and favourited
\* from the other tab: it holds the submitted fields and the user's id
C14_Witness ==
    /\ view = "mgmt"
    /\ 1 \in DOMAIN store
    /\ store[1].created >= InitialClock
    /\ store[1].name # InitialStore[1].name
    /\ FavoritesOf(store[1]) = <<CurrentUser>>
    /\ inflight = <<>>

\* C15: no step changes the createdAt or the ownerId of a document that
\* exists before and after it, nor those of the local entry of such a
\* document; in particular the store's applying an update and the update's
\* continuation leave both as they were written at creation.
C15_CreationFieldsImmutable ==
    [][/\ \A d \in (DOMAIN store) \cap (DOMAIN store') :
              /\ store'[d].created = store[d].created
              /\ store'[d].userId = store[d].userId
       /\ \A k \in 1..Len(events') : \A j \in 1..Len(events) :
              (Id(events'[k]) # Undefined /\ Id(events'[k]) = Id(events[j])) =>
                  /\ events'[k].created = events[j].created
                  /\ events'[k].userId = events[j].userId]_vars

\* C16: every query a view has composed (owner load, owner search, browse
\* load) asks for its results by createdAt descending, and every result the
\* store has given to one is in that order, newest first.
C16_QueriesOrderByCreatedDesc ==
    \A i \in InFlightOf({"load", "search"}) :
        /\ inflight[i].q.order = "created desc"
        /\ inflight[i].state = "ok" =>
               \A k \in 1..(Len(inflight[i].result) - 1) :
                   inflight[i].result[k].data.created
                       >= inflight[i].result[k + 1].data.created

\* how many times x occurs in arr
Occurrences(arr, x) == Cardinality({j \in 1..Len(arr) : arr[j] = x})

\* C17: in the public-browse view the favorites index holds no event id more
\* than once and no local event's favoritedBy holds the current user's id
\* more than once.
C17_NoDuplicateFavorites ==
    view = "home" =>
        /\ \A j \in 1..Len(favorites) : Occurrences(favorites, favorites[j]) = 1
        /\ \A k \in 1..Len(events) :
               Occurrences(FavoritesOf(events[k]), CurrentUser) <= 1

\* C18: in either view, whenever the remote query of a load or of a search is
\* still awaiting the store, the in-flight indicator is true.
C18_IndicatorWhilePending ==
    (\E i \in InFlightOf({"load", "search"}) : inflight[i].state = "sent") => loading

\* C19: in the owner-management view the selected event is None or an event
\* whose id is the id of an entry of the local collection.
C19_SelectedIsInCollection ==
    view = "mgmt" =>
        \/ selectedEvent = Null
        \/ Id(selectedEvent) \in IdsOf(events)

\* C20: in the owner-management view no two entries of the local collection
\* have the same id.
C20_NoDuplicateIds ==
    view = "mgmt" =>
        \A j \in 1..Len(events) : \A k \in 1..Len(events) :
            Id(events[j]) = Id(events[k]) => j = k

====
